---- MODULE Spec2Model ----
(***************************************************************************)
(* Container options of termdash (container/options.go): the option model *)
(* applied to a binary tree of containers, the tree validator, the margin *)
(* and padding arithmetic and the focus bookkeeping the options touch.    *)
(*                                                                         *)
(* A container is a record [cid, first, second, opts].  first and second  *)
(* are <<>> (a nil pointer) or <<child>>.  cid is the identity of the     *)
(* container object, which is what the focus tracker points at.  The      *)
(* globalOptions instances live in a heap indexed by handle, opts.global  *)
(* is such a handle.  An error is <<>> (nil) or a tuple of strings whose  *)
(* first element is the kind of the message.                               *)
(***************************************************************************)
EXTENDS Integers, Sequences, FiniteSets, TLC

VARIABLES
    root,           \* the root *Container with everything reachable from it
    globalOptions,  \* heap of globalOptions instances, handle -> instance
    focusTracker,   \* [container |-> cid of the focused container]
    last            \* the last call made: what was called, on what, and what it returned

vars == <<root, globalOptions, focusTracker, last>>

-----------------------------------------------------------------------------
(* Bounds of the model.                                                    *)

\* The most containers a tree may hold; a call that would grow the tree
\* beyond it is not made.
MaxContainers == 3

\* The longest option list given to one applyOptions call.
MaxOpts == 3

\* The most margin and padding sides of one container that carry a value at
\* the same time; a call that would configure more is not made.
MaxSpacing == 2

\* The most focus groups a container may be assigned to; a call that would
\* make the list longer is not made.
MaxGroups == 2

-----------------------------------------------------------------------------
(* Values.                                                                 *)

nil == <<>>

\* cid standing for a container object that is no longer (or never was)
\* reachable from the root.
Detached == 0

nilWidget == "nil"
nilKey == "nil"
nilColor == "nil"

DefaultSplitReversed == FALSE
DefaultSplitPercent == 50
DefaultSplitFixed == -1

splitTypeVertical == 0
splitTypeHorizontal == 1

ErrRange == "invalid value, out of range"
ErrBoth == "cannot specify both"
ErrEmptyID == "the ID cannot be an empty string"
ErrDuplicateID == "duplicate container ID"
ErrSplits == "only one of splitFixed and splitPercent is allowed to be set per container"
ErrKeyAssigned == "key is already assigned"

Ok(c, sh) == [c |-> c, sh |-> sh, err |-> nil]
Fail(c, sh, e) == [c |-> c, sh |-> sh, err |-> e]

\* The zero value of the margin and of the padding struct.
margin == [topCells |-> 0, topPerc |-> 0, rightCells |-> 0, rightPerc |-> 0,
           bottomCells |-> 0, bottomPerc |-> 0, leftCells |-> 0, leftPerc |-> 0]
padding == margin

\* The zero value of inherited, and the instance newOptions starts from.
inherited == [borderColor |-> "ColorDefault", focusedColor |-> "ColorYellow",
              titleColor |-> nilColor, titleFocusedColor |-> nilColor]

\* firstMatching that returns the matching group with the lowest number.
firstMatchingLowest(fg, contGroups) ==
    LET hits == {contGroups[i] : i \in DOMAIN contGroups} \cap fg
    IN  IF hits = {}
        THEN <<FALSE, 0>>
        ELSE <<TRUE, CHOOSE g \in hits : \A h \in hits : g <= h>>

\* fg.firstMatching(contGroups): fg is the set of the groups the map holds
\* (every value of the map is true); the result is the pair (bool, group).
RECURSIVE firstMatching(_, _)
firstMatching(fg, contGroups) ==
    IF contGroups = <<>>
    THEN <<FALSE, 0>>
    ELSE IF Head(contGroups) \in fg
         THEN <<TRUE, Head(contGroups)>>
         ELSE firstMatching(fg, Tail(contGroups))

\* A fresh globalOptions instance: no keys, two empty maps.
NewGlobalOptions ==
    [keyFocusNext |-> nilKey, keyFocusPrevious |-> nilKey,
     keyFocusGroupsNext |-> << >>, keyFocusGroupsPrevious |-> << >>]

\* newOptions without the copy of the parent's inherited options: a child
\* starts from the defaults.
newOptionsNoInherit(parent, gh) ==
    [id |-> "", global |-> IF parent # <<>> THEN parent[1].global ELSE gh,
     inherited |-> inherited, split |-> splitTypeVertical,
     splitReversed |-> DefaultSplitReversed, splitPercent |-> DefaultSplitPercent,
     splitFixed |-> DefaultSplitFixed, widget |-> nilWidget,
     hAlign |-> "HorizontalCenter", vAlign |-> "VerticalMiddle", border |-> "None",
     borderTitle |-> "", borderTitleHAlign |-> "HorizontalLeft", padding |-> padding,
     margin |-> margin, keyFocusSkip |-> FALSE, keyFocusGroups |-> << >>]

\* newOptions that copies the parent's inherited options only: the child
\* keeps the globalOptions instance allocated for it.
newOptionsOwnGlobal(parent, gh) ==
    [id |-> "", global |-> gh,
     inherited |-> IF parent # <<>> THEN parent[1].inherited ELSE inherited,
     split |-> splitTypeVertical,
     splitReversed |-> DefaultSplitReversed, splitPercent |-> DefaultSplitPercent,
     splitFixed |-> DefaultSplitFixed, widget |-> nilWidget,
     hAlign |-> "HorizontalCenter", vAlign |-> "VerticalMiddle", border |-> "None",
     borderTitle |-> "", borderTitleHAlign |-> "HorizontalLeft", padding |-> padding,
     margin |-> margin, keyFocusSkip |-> FALSE, keyFocusGroups |-> << >>]

\* newOptions(parent): parent is <<>> for the root and <<parent options>> for
\* a child.  gh is the handle of the globalOptions instance allocated for a
\* container without a parent; a child takes its parent's handle and its
\* parent's inherited values (the instance allocated for it becomes garbage).
newOptions(parent, gh) ==
    LET opts == [id |-> "",
                 global |-> gh,
                 inherited |-> inherited,
                 split |-> splitTypeVertical,
                 splitReversed |-> DefaultSplitReversed,
                 splitPercent |-> DefaultSplitPercent,
                 splitFixed |-> DefaultSplitFixed,
                 widget |-> nilWidget,
                 hAlign |-> "HorizontalCenter",
                 vAlign |-> "VerticalMiddle",
                 border |-> "None",
                 borderTitle |-> "",
                 borderTitleHAlign |-> "HorizontalLeft",
                 padding |-> padding,
                 margin |-> margin,
                 keyFocusSkip |-> FALSE,
                 keyFocusGroups |-> << >>]
    IN  IF parent # <<>>
        THEN [opts EXCEPT !.global = parent[1].global,
                          !.inherited = parent[1].inherited]
        ELSE opts

-----------------------------------------------------------------------------
(* Split options (SplitOption.setSplit works on *options).                 *)

\* SplitPercent that accepts the upper end of the range.
SplitPercentInclusive(p, opts) ==
    IF p <= 0 \/ p > 100
    THEN [opts |-> opts, err |-> <<ErrRange, "SplitPercent">>]
    ELSE [opts |-> [opts EXCEPT !.splitPercent = p], err |-> nil]

SplitPercent(p, opts) ==
    IF p <= 0 \/ p >= 100
    THEN [opts |-> opts, err |-> <<ErrRange, "SplitPercent">>]
    ELSE [opts |-> [opts EXCEPT !.splitPercent = p], err |-> nil]

SplitPercentFromEnd(p, opts) ==
    IF p <= 0 \/ p >= 100
    THEN [opts |-> opts, err |-> <<ErrRange, "SplitPercentFromEnd">>]
    ELSE [opts |-> [opts EXCEPT !.splitReversed = TRUE, !.splitPercent = p],
          err |-> nil]

\* SplitFixed that marks the split as not reversed.
SplitFixedNotReversed(cells, opts) ==
    IF cells < 0
    THEN [opts |-> opts, err |-> <<ErrRange, "SplitFixed">>]
    ELSE [opts |-> [opts EXCEPT !.splitFixed = cells, !.splitReversed = FALSE],
          err |-> nil]

SplitFixed(cells, opts) ==
    IF cells < 0
    THEN [opts |-> opts, err |-> <<ErrRange, "SplitFixed">>]
    ELSE [opts |-> [opts EXCEPT !.splitFixed = cells], err |-> nil]

SplitFixedFromEnd(cells, opts) ==
    IF cells < 0
    THEN [opts |-> opts, err |-> <<ErrRange, "SplitFixedFromEnd">>]
    ELSE [opts |-> [opts EXCEPT !.splitFixed = cells, !.splitReversed = TRUE],
          err |-> nil]

setSplit(so, opts) ==
    CASE so.op = "SplitPercent" -> SplitPercent(so.arg, opts)
      [] so.op = "SplitPercentFromEnd" -> SplitPercentFromEnd(so.arg, opts)
      [] so.op = "SplitFixed" -> SplitFixed(so.arg, opts)
      [] so.op = "SplitFixedFromEnd" -> SplitFixedFromEnd(so.arg, opts)

\* The loop over the split options in SplitVertical and SplitHorizontal:
\* each is applied to c.opts in turn, the first error ends the loop.
RECURSIVE setSplits(_, _)
setSplits(sopts, opts) ==
    IF sopts = <<>>
    THEN [opts |-> opts, err |-> nil]
    ELSE LET r == setSplit(Head(sopts), opts)
         IN  IF r.err # nil THEN r ELSE setSplits(Tail(sopts), r.opts)

-----------------------------------------------------------------------------
(* Options that only touch the container they are set on.                  *)

ID(id, c, sh) ==
    IF id = ""
    THEN Fail(c, sh, <<ErrEmptyID, "ID">>)
    ELSE Ok([c EXCEPT !.opts.id = id], sh)

\* Clear that also returns the split sizing to its defaults.
ClearResetsSplit(c, sh) ==
    Ok([c EXCEPT !.opts.widget = nilWidget, !.first = nil, !.second = nil,
                 !.opts.splitPercent = DefaultSplitPercent,
                 !.opts.splitFixed = DefaultSplitFixed,
                 !.opts.splitReversed = DefaultSplitReversed], sh)

Clear(c, sh) ==
    Ok([c EXCEPT !.opts.widget = nilWidget, !.first = nil, !.second = nil], sh)

\* PlaceWidget that removes the children and leaves the widget field alone.
PlaceWidgetNoStore(w, c, sh) ==
    Ok([c EXCEPT !.first = nil, !.second = nil], sh)

PlaceWidget(w, c, sh) ==
    Ok([c EXCEPT !.opts.widget = w, !.first = nil, !.second = nil], sh)

\* MarginTop (options.go:455-466): range check, then the conflict check against
\* margin.topPerc, then the assignment of margin.topCells.
\* MarginTop without the range test.
MarginTopAnyValue(cells, c, sh) ==
    IF c.opts.margin.topPerc > 0
    THEN Fail(c, sh, <<ErrBoth, "MarginTop">>)
    ELSE Ok([c EXCEPT !.opts.margin.topCells = cells], sh)

MarginTop(cells, c, sh) ==
    IF cells < 0
    THEN Fail(c, sh, <<ErrRange, "MarginTop">>)
    ELSE IF c.opts.margin.topPerc > 0
         THEN Fail(c, sh, <<ErrBoth, "MarginTop">>)
         ELSE Ok([c EXCEPT !.opts.margin.topCells = cells], sh)

\* MarginRight (options.go:471-482): range check, then the conflict check against
\* margin.rightPerc, then the assignment of margin.rightCells.
MarginRight(cells, c, sh) ==
    IF cells < 0
    THEN Fail(c, sh, <<ErrRange, "MarginRight">>)
    ELSE IF c.opts.margin.rightPerc > 0
         THEN Fail(c, sh, <<ErrBoth, "MarginRight">>)
         ELSE Ok([c EXCEPT !.opts.margin.rightCells = cells], sh)

\* MarginBottom (options.go:487-498): range check, then the conflict check against
\* margin.bottomPerc, then the assignment of margin.bottomCells.
MarginBottom(cells, c, sh) ==
    IF cells < 0
    THEN Fail(c, sh, <<ErrRange, "MarginBottom">>)
    ELSE IF c.opts.margin.bottomPerc > 0
         THEN Fail(c, sh, <<ErrBoth, "MarginBottom">>)
         ELSE Ok([c EXCEPT !.opts.margin.bottomCells = cells], sh)

\* MarginLeft (options.go:503-514): range check, then the conflict check against
\* margin.leftPerc, then the assignment of margin.leftCells.
MarginLeft(cells, c, sh) ==
    IF cells < 0
    THEN Fail(c, sh, <<ErrRange, "MarginLeft">>)
    ELSE IF c.opts.margin.leftPerc > 0
         THEN Fail(c, sh, <<ErrBoth, "MarginLeft">>)
         ELSE Ok([c EXCEPT !.opts.margin.leftCells = cells], sh)

\* MarginTopPercent without the test for a cell value on the same side.
MarginTopPercentNoConflictCheck(perc, c, sh) ==
    IF perc < 0 \/ perc > 100
    THEN Fail(c, sh, <<ErrRange, "MarginTopPercent">>)
    ELSE Ok([c EXCEPT !.opts.margin.topPerc = perc], sh)

\* MarginTopPercent (options.go:520-531): range check, then the conflict check against
\* margin.topCells, then the assignment of margin.topPerc.
MarginTopPercent(perc, c, sh) ==
    IF perc < 0 \/ perc > 100
    THEN Fail(c, sh, <<ErrRange, "MarginTopPercent">>)
    ELSE IF c.opts.margin.topCells > 0
         THEN Fail(c, sh, <<ErrBoth, "MarginTopPercent">>)
         ELSE Ok([c EXCEPT !.opts.margin.topPerc = perc], sh)

\* MarginRightPercent (options.go:537-548): range check, then the conflict check against
\* margin.rightCells, then the assignment of margin.rightPerc.
MarginRightPercent(perc, c, sh) ==
    IF perc < 0 \/ perc > 100
    THEN Fail(c, sh, <<ErrRange, "MarginRightPercent">>)
    ELSE IF c.opts.margin.rightCells > 0
         THEN Fail(c, sh, <<ErrBoth, "MarginRightPercent">>)
         ELSE Ok([c EXCEPT !.opts.margin.rightPerc = perc], sh)

\* MarginBottomPercent (options.go:554-565): range check, then the conflict check against
\* margin.bottomCells, then the assignment of margin.bottomPerc.
MarginBottomPercent(perc, c, sh) ==
    IF perc < 0 \/ perc > 100
    THEN Fail(c, sh, <<ErrRange, "MarginBottomPercent">>)
    ELSE IF c.opts.margin.bottomCells > 0
         THEN Fail(c, sh, <<ErrBoth, "MarginBottomPercent">>)
         ELSE Ok([c EXCEPT !.opts.margin.bottomPerc = perc], sh)

\* MarginLeftPercent (options.go:571-582): range check, then the conflict check against
\* margin.leftCells, then the assignment of margin.leftPerc.
MarginLeftPercent(perc, c, sh) ==
    IF perc < 0 \/ perc > 100
    THEN Fail(c, sh, <<ErrRange, "MarginLeftPercent">>)
    ELSE IF c.opts.margin.leftCells > 0
         THEN Fail(c, sh, <<ErrBoth, "MarginLeftPercent">>)
         ELSE Ok([c EXCEPT !.opts.margin.leftPerc = perc], sh)

\* PaddingTop (options.go:588-599): range check, then the conflict check against
\* padding.topPerc, then the assignment of padding.topCells.
PaddingTop(cells, c, sh) ==
    IF cells < 0
    THEN Fail(c, sh, <<ErrRange, "PaddingTop">>)
    ELSE IF c.opts.padding.topPerc > 0
         THEN Fail(c, sh, <<ErrBoth, "PaddingTop">>)
         ELSE Ok([c EXCEPT !.opts.padding.topCells = cells], sh)

\* PaddingRight (options.go:605-616): range check, then the conflict check against
\* padding.rightPerc, then the assignment of padding.rightCells.
PaddingRight(cells, c, sh) ==
    IF cells < 0
    THEN Fail(c, sh, <<ErrRange, "PaddingRight">>)
    ELSE IF c.opts.padding.rightPerc > 0
         THEN Fail(c, sh, <<ErrBoth, "PaddingRight">>)
         ELSE Ok([c EXCEPT !.opts.padding.rightCells = cells], sh)

\* PaddingBottom (options.go:622-633): range check, then the conflict check against
\* padding.bottomPerc, then the assignment of padding.bottomCells.
PaddingBottom(cells, c, sh) ==
    IF cells < 0
    THEN Fail(c, sh, <<ErrRange, "PaddingBottom">>)
    ELSE IF c.opts.padding.bottomPerc > 0
         THEN Fail(c, sh, <<ErrBoth, "PaddingBottom">>)
         ELSE Ok([c EXCEPT !.opts.padding.bottomCells = cells], sh)

\* PaddingLeft (options.go:639-650): range check, then the conflict check against
\* padding.leftPerc, then the assignment of padding.leftCells.
PaddingLeft(cells, c, sh) ==
    IF cells < 0
    THEN Fail(c, sh, <<ErrRange, "PaddingLeft">>)
    ELSE IF c.opts.padding.leftPerc > 0
         THEN Fail(c, sh, <<ErrBoth, "PaddingLeft">>)
         ELSE Ok([c EXCEPT !.opts.padding.leftCells = cells], sh)

\* PaddingTopPercent (options.go:657-668): range check, then the conflict check against
\* padding.topCells, then the assignment of padding.topPerc.
PaddingTopPercent(perc, c, sh) ==
    IF perc < 0 \/ perc > 100
    THEN Fail(c, sh, <<ErrRange, "PaddingTopPercent">>)
    ELSE IF c.opts.padding.topCells > 0
         THEN Fail(c, sh, <<ErrBoth, "PaddingTopPercent">>)
         ELSE Ok([c EXCEPT !.opts.padding.topPerc = perc], sh)

\* PaddingRightPercent (options.go:675-686): range check, then the conflict check against
\* padding.rightCells, then the assignment of padding.rightPerc.
PaddingRightPercent(perc, c, sh) ==
    IF perc < 0 \/ perc > 100
    THEN Fail(c, sh, <<ErrRange, "PaddingRightPercent">>)
    ELSE IF c.opts.padding.rightCells > 0
         THEN Fail(c, sh, <<ErrBoth, "PaddingRightPercent">>)
         ELSE Ok([c EXCEPT !.opts.padding.rightPerc = perc], sh)

\* PaddingBottomPercent (options.go:693-704): range check, then the conflict check against
\* padding.bottomCells, then the assignment of padding.bottomPerc.
PaddingBottomPercent(perc, c, sh) ==
    IF perc < 0 \/ perc > 100
    THEN Fail(c, sh, <<ErrRange, "PaddingBottomPercent">>)
    ELSE IF c.opts.padding.bottomCells > 0
         THEN Fail(c, sh, <<ErrBoth, "PaddingBottomPercent">>)
         ELSE Ok([c EXCEPT !.opts.padding.bottomPerc = perc], sh)

\* PaddingLeftPercent (options.go:711-722): range check, then the conflict check against
\* padding.leftCells, then the assignment of padding.leftPerc.
PaddingLeftPercent(perc, c, sh) ==
    IF perc < 0 \/ perc > 100
    THEN Fail(c, sh, <<ErrRange, "PaddingLeftPercent">>)
    ELSE IF c.opts.padding.leftCells > 0
         THEN Fail(c, sh, <<ErrBoth, "PaddingLeftPercent">>)
         ELSE Ok([c EXCEPT !.opts.padding.leftPerc = perc], sh)
AlignHorizontal(h, c, sh) == Ok([c EXCEPT !.opts.hAlign = h], sh)

AlignVertical(v, c, sh) == Ok([c EXCEPT !.opts.vAlign = v], sh)

Border(ls, c, sh) == Ok([c EXCEPT !.opts.border = ls], sh)

BorderTitle(title, c, sh) == Ok([c EXCEPT !.opts.borderTitle = title], sh)

BorderTitleAlignLeft(c, sh) ==
    Ok([c EXCEPT !.opts.borderTitleHAlign = "HorizontalLeft"], sh)

BorderTitleAlignCenter(c, sh) ==
    Ok([c EXCEPT !.opts.borderTitleHAlign = "HorizontalCenter"], sh)

BorderTitleAlignRight(c, sh) ==
    Ok([c EXCEPT !.opts.borderTitleHAlign = "HorizontalRight"], sh)

BorderColor(color, c, sh) == Ok([c EXCEPT !.opts.inherited.borderColor = color], sh)

FocusedColor(color, c, sh) == Ok([c EXCEPT !.opts.inherited.focusedColor = color], sh)

\* The pointer stored is to the option's own copy of color, which nothing
\* writes afterwards: the field holds the value.
TitleColor(color, c, sh) == Ok([c EXCEPT !.opts.inherited.titleColor = color], sh)

TitleFocusedColor(color, c, sh) ==
    Ok([c EXCEPT !.opts.inherited.titleFocusedColor = color], sh)

KeyFocusSkip(c, sh) == Ok([c EXCEPT !.opts.keyFocusSkip = TRUE], sh)

\* The loop of KeyFocusGroups over its groups: a negative group ends it with
\* an error, any other group is appended.
RECURSIVE keyFocusGroupsLoop(_, _, _)
keyFocusGroupsLoop(groups, c, sh) ==
    IF groups = <<>>
    THEN Ok(c, sh)
    ELSE IF Head(groups) < 0
         THEN Fail(c, sh, <<ErrRange, "KeyFocusGroups">>)
         ELSE keyFocusGroupsLoop(
                  Tail(groups),
                  [c EXCEPT !.opts.keyFocusGroups = Append(@, Head(groups))],
                  sh)

\* KeyFocusGroups that starts from an empty list on every call.
KeyFocusGroupsReplace(groups, c, sh) ==
    keyFocusGroupsLoop(groups, [c EXCEPT !.opts.keyFocusGroups = << >>], sh)

KeyFocusGroups(groups, c, sh) ==
    keyFocusGroupsLoop(
        groups,
        IF Len(groups) = 0 THEN [c EXCEPT !.opts.keyFocusGroups = << >>] ELSE c,
        sh)

-----------------------------------------------------------------------------
(* Options that write the tree's globalOptions instance.                   *)

KeyFocusNext(key, c, sh) ==
    Ok(c, [sh EXCEPT !.globals[c.opts.global].keyFocusNext = key])

KeyFocusPrevious(key, c, sh) ==
    Ok(c, [sh EXCEPT !.globals[c.opts.global].keyFocusPrevious = key])

\* m[key] = m[key] \cup {g}, the entry being created when missing.  A map
\* is a function whose domain is the set of its keys.
MapAdd(m, key, g) ==
    [k \in DOMAIN m \cup {key} |->
        IF k = key
        THEN (IF key \in DOMAIN m THEN m[key] ELSE {}) \cup {g}
        ELSE m[k]]

\* The loop of KeyFocusGroupsNext without the test for a key that the
\* previous-mapping already holds.
RECURSIVE keyFocusGroupsNextLoopNoCheck(_, _, _, _)
keyFocusGroupsNextLoopNoCheck(key, groups, c, sh) ==
    IF groups = <<>>
    THEN Ok(c, sh)
    ELSE IF Head(groups) < 0
         THEN Fail(c, sh, <<ErrRange, "KeyFocusGroupsNext">>)
         ELSE keyFocusGroupsNextLoopNoCheck(
                  key, Tail(groups), c,
                  [sh EXCEPT !.globals[c.opts.global].keyFocusGroupsNext =
                                 MapAdd(@, key, Head(groups))])

\* The loop of KeyFocusGroupsNext over its groups: the range test, the test
\* for a key of the previous-mapping, then the group is added to the key's set.
RECURSIVE keyFocusGroupsNextLoop(_, _, _, _)
keyFocusGroupsNextLoop(key, groups, c, sh) ==
    IF groups = <<>>
    THEN Ok(c, sh)
    ELSE LET g == Head(groups)
             gl == sh.globals[c.opts.global]
         IN  IF g < 0
             THEN Fail(c, sh, <<ErrRange, "KeyFocusGroupsNext">>)
             ELSE IF key \in DOMAIN gl.keyFocusGroupsPrevious
                  THEN Fail(c, sh, <<ErrKeyAssigned, "KeyFocusGroupsNext">>)
                  ELSE keyFocusGroupsNextLoop(
                           key, Tail(groups), c,
                           [sh EXCEPT !.globals[c.opts.global].keyFocusGroupsNext =
                                          MapAdd(@, key, g)])

KeyFocusGroupsNext(key, groups, c, sh) == keyFocusGroupsNextLoop(key, groups, c, sh)

\* The loop of KeyFocusGroupsPrevious; its range error names
\* KeyFocusGroupsNext, as the message in the code does.
RECURSIVE keyFocusGroupsPreviousLoop(_, _, _, _)
keyFocusGroupsPreviousLoop(key, groups, c, sh) ==
    IF groups = <<>>
    THEN Ok(c, sh)
    ELSE LET g == Head(groups)
             gl == sh.globals[c.opts.global]
         IN  IF g < 0
             THEN Fail(c, sh, <<ErrRange, "KeyFocusGroupsNext">>)
             ELSE IF key \in DOMAIN gl.keyFocusGroupsNext
                  THEN Fail(c, sh, <<ErrKeyAssigned, "KeyFocusGroupsPrevious">>)
                  ELSE keyFocusGroupsPreviousLoop(
                           key, Tail(groups), c,
                           [sh EXCEPT !.globals[c.opts.global].keyFocusGroupsPrevious =
                                          MapAdd(@, key, g)])

KeyFocusGroupsPrevious(key, groups, c, sh) ==
    keyFocusGroupsPreviousLoop(key, groups, c, sh)

-----------------------------------------------------------------------------
(* The focus tracker shared by the containers of a tree.                   *)

\* focusTracker.setActive(c): the tracker now points at c.
setActive(c, sh) == [sh EXCEPT !.focus = c.cid]

\* Focused that takes the focus only while the tracker points at the
\* container with the first identity, where it starts.
FocusedOnce(c, sh) == IF sh.focus = 1 THEN Ok(c, setActive(c, sh)) ELSE Ok(c, sh)

Focused(c, sh) == Ok(c, setActive(c, sh))

-----------------------------------------------------------------------------
(* Splits and the application of option lists.                             *)

RECURSIVE applyOptions(_, _, _)

\* newChild(parent, opts): a new container with options inherited from the
\* parent, to which opts are applied.  The child is not yet linked into the
\* parent while its options run.  The globalOptions instance newOptions
\* allocates is the next one of the heap.
newChild(parent, sh, opts) ==
    applyOptions(
        [cid |-> sh.nextId, first |-> nil, second |-> nil,
         opts |-> newOptions(<<parent.opts>>, Len(sh.globals) + 1)],
        [sh EXCEPT !.nextId = @ + 1, !.globals = Append(@, NewGlobalOptions)],
        opts)

\* c.createFirst(opts): c.first is set only when the child's options succeed.
createFirst(c, sh, opts) ==
    LET ch == newChild(c, sh, opts)
    IN  IF ch.err # nil
        THEN Fail(c, ch.sh, ch.err)
        ELSE Ok([c EXCEPT !.first = <<ch.c>>], ch.sh)

\* c.createSecond(opts): c.second is set only when the child's options succeed.
createSecond(c, sh, opts) ==
    LET ch == newChild(c, sh, opts)
    IN  IF ch.err # nil
        THEN Fail(c, ch.sh, ch.err)
        ELSE Ok([c EXCEPT !.second = <<ch.c>>], ch.sh)

\* SplitVertical that creates the second child before the first.
SplitVerticalSecondFirst(l, r, sopts, c, sh) ==
    LET c1 == [c EXCEPT !.opts.split = splitTypeVertical, !.opts.widget = nilWidget]
        so == setSplits(sopts, c1.opts)
        c2 == [c1 EXCEPT !.opts = so.opts]
    IN  IF so.err # nil
        THEN Fail(c2, sh, so.err)
        ELSE LET f == createSecond(c2, sh, r)
             IN  IF f.err # nil THEN f ELSE createFirst(f.c, f.sh, l)

SplitVertical(l, r, sopts, c, sh) ==
    LET c1 == [c EXCEPT !.opts.split = splitTypeVertical, !.opts.widget = nilWidget]
        so == setSplits(sopts, c1.opts)
        c2 == [c1 EXCEPT !.opts = so.opts]
    IN  IF so.err # nil
        THEN Fail(c2, sh, so.err)
        ELSE LET f == createFirst(c2, sh, l)
             IN  IF f.err # nil THEN f ELSE createSecond(f.c, f.sh, r)

SplitHorizontal(t, b, sopts, c, sh) ==
    LET c1 == [c EXCEPT !.opts.split = splitTypeHorizontal, !.opts.widget = nilWidget]
        so == setSplits(sopts, c1.opts)
        c2 == [c1 EXCEPT !.opts = so.opts]
    IN  IF so.err # nil
        THEN Fail(c2, sh, so.err)
        ELSE LET f == createFirst(c2, sh, t)
             IN  IF f.err # nil THEN f ELSE createSecond(f.c, f.sh, b)

\* Option.set(c): the option's closure run on c.
set(opt, c, sh) ==
    CASE opt.op = "SplitVertical" -> SplitVertical(opt.l, opt.r, opt.opts, c, sh)
      [] opt.op = "SplitHorizontal" -> SplitHorizontal(opt.l, opt.r, opt.opts, c, sh)
      [] opt.op = "ID" -> ID(opt.arg, c, sh)
      [] opt.op = "Clear" -> Clear(c, sh)
      [] opt.op = "PlaceWidget" -> PlaceWidget(opt.arg, c, sh)
      [] opt.op = "MarginTop" -> MarginTop(opt.arg, c, sh)
      [] opt.op = "MarginRight" -> MarginRight(opt.arg, c, sh)
      [] opt.op = "MarginBottom" -> MarginBottom(opt.arg, c, sh)
      [] opt.op = "MarginLeft" -> MarginLeft(opt.arg, c, sh)
      [] opt.op = "MarginTopPercent" -> MarginTopPercent(opt.arg, c, sh)
      [] opt.op = "MarginRightPercent" -> MarginRightPercent(opt.arg, c, sh)
      [] opt.op = "MarginBottomPercent" -> MarginBottomPercent(opt.arg, c, sh)
      [] opt.op = "MarginLeftPercent" -> MarginLeftPercent(opt.arg, c, sh)
      [] opt.op = "PaddingTop" -> PaddingTop(opt.arg, c, sh)
      [] opt.op = "PaddingRight" -> PaddingRight(opt.arg, c, sh)
      [] opt.op = "PaddingBottom" -> PaddingBottom(opt.arg, c, sh)
      [] opt.op = "PaddingLeft" -> PaddingLeft(opt.arg, c, sh)
      [] opt.op = "PaddingTopPercent" -> PaddingTopPercent(opt.arg, c, sh)
      [] opt.op = "PaddingRightPercent" -> PaddingRightPercent(opt.arg, c, sh)
      [] opt.op = "PaddingBottomPercent" -> PaddingBottomPercent(opt.arg, c, sh)
      [] opt.op = "PaddingLeftPercent" -> PaddingLeftPercent(opt.arg, c, sh)
      [] opt.op = "AlignHorizontal" -> AlignHorizontal(opt.arg, c, sh)
      [] opt.op = "AlignVertical" -> AlignVertical(opt.arg, c, sh)
      [] opt.op = "Border" -> Border(opt.arg, c, sh)
      [] opt.op = "BorderTitle" -> BorderTitle(opt.arg, c, sh)
      [] opt.op = "BorderTitleAlignLeft" -> BorderTitleAlignLeft(c, sh)
      [] opt.op = "BorderTitleAlignCenter" -> BorderTitleAlignCenter(c, sh)
      [] opt.op = "BorderTitleAlignRight" -> BorderTitleAlignRight(c, sh)
      [] opt.op = "BorderColor" -> BorderColor(opt.arg, c, sh)
      [] opt.op = "FocusedColor" -> FocusedColor(opt.arg, c, sh)
      [] opt.op = "TitleColor" -> TitleColor(opt.arg, c, sh)
      [] opt.op = "TitleFocusedColor" -> TitleFocusedColor(opt.arg, c, sh)
      [] opt.op = "KeyFocusNext" -> KeyFocusNext(opt.arg, c, sh)
      [] opt.op = "KeyFocusPrevious" -> KeyFocusPrevious(opt.arg, c, sh)
      [] opt.op = "KeyFocusSkip" -> KeyFocusSkip(c, sh)
      [] opt.op = "KeyFocusGroups" -> KeyFocusGroups(opt.groups, c, sh)
      [] opt.op = "KeyFocusGroupsNext" -> KeyFocusGroupsNext(opt.key, opt.groups, c, sh)
      [] opt.op = "KeyFocusGroupsPrevious" ->
             KeyFocusGroupsPrevious(opt.key, opt.groups, c, sh)
      [] opt.op = "Focused" -> Focused(c, sh)

\* applyOptions without the early return: every option is applied, the first
\* error is what is returned.
RECURSIVE applyOptionsKeepGoing(_, _, _)
applyOptionsKeepGoing(c, sh, opts) ==
    IF opts = <<>>
    THEN Ok(c, sh)
    ELSE LET r == set(Head(opts), c, sh)
             rest == applyOptionsKeepGoing(r.c, r.sh, Tail(opts))
         IN  IF r.err # nil THEN [rest EXCEPT !.err = r.err] ELSE rest

\* applyOptions(c, opts...): the options in list order, ended by the first
\* error, which is returned with whatever was applied before it.
applyOptions(c, sh, opts) ==
    IF opts = <<>>
    THEN Ok(c, sh)
    ELSE LET r == set(Head(opts), c, sh)
         IN  IF r.err # nil THEN r ELSE applyOptions(r.c, r.sh, Tail(opts))

-----------------------------------------------------------------------------
(* The tree validator.                                                     *)

\* validateIds without the test for the empty identifier.
validateIdsEmptyCounts(c, seen) ==
    IF c.opts.id \in seen
    THEN [err |-> <<ErrDuplicateID, c.opts.id>>, seen |-> seen]
    ELSE [err |-> nil, seen |-> seen \cup {c.opts.id}]

\* validateIds(c, seen): seen is the set of identifiers mapped to true.
validateIds(c, seen) ==
    IF c.opts.id = ""
    THEN [err |-> nil, seen |-> seen]
    ELSE IF c.opts.id \in seen
         THEN [err |-> <<ErrDuplicateID, c.opts.id>>, seen |-> seen]
         ELSE [err |-> nil, seen |-> seen \cup {c.opts.id}]

validateSplits(c) ==
    IF c.opts.splitFixed > DefaultSplitFixed /\ c.opts.splitPercent # DefaultSplitPercent
    THEN <<ErrSplits, ToString(c.opts.splitFixed), ToString(c.opts.splitPercent)>>
    ELSE nil

\* The visit function with the two validators in the other order.
visitSplitsFirst(c, seenID) ==
    IF validateSplits(c) # nil
    THEN [err |-> validateSplits(c), seen |-> seenID]
    ELSE validateIds(c, seenID)

\* The visit function validateOptions hands to preOrder: validateIds, and
\* only when it passes, validateSplits.
visit(c, seenID) ==
    LET i == validateIds(c, seenID)
    IN  IF i.err # nil
        THEN i
        ELSE [err |-> validateSplits(c), seen |-> i.seen]

\* preOrder(c, errStr, visit): pre-order walk, parent, first, second.  c is
\* nil or <<container>>; st carries errStr and the visit function's seenID.
\* Once errStr is set nothing more is visited.
RECURSIVE preOrder(_, _)
preOrder(c, st) ==
    IF c = nil \/ st.errStr # nil
    THEN st
    ELSE LET v == visit(c[1], st.seenID)
         IN  IF v.err # nil
             THEN [errStr |-> v.err, seenID |-> v.seen]
             ELSE preOrder(c[1].second,
                           preOrder(c[1].first,
                                    [errStr |-> nil, seenID |-> v.seen]))

\* validateOptions(c): the error of the walk, nil when errStr stayed empty.
validateOptions(c) == preOrder(<<c>>, [errStr |-> nil, seenID |-> {}]).errStr

-----------------------------------------------------------------------------
(* Margin and padding applied to an area (image.Rectangle).                *)

Rectangle(x0, y0, x1, y1) == [Min |-> [X |-> x0, Y |-> y0], Max |-> [X |-> x1, Y |-> y1]]
Dx(ar) == ar.Max.X - ar.Min.X
Dy(ar) == ar.Max.Y - ar.Min.Y

ErrShrink == "cannot shrink the area below zero size"

\* area.Shrink: each side moved inwards by its number of cells; an area
\* shrunk below zero in either dimension is an error.
Shrink(ar, topCells, rightCells, bottomCells, leftCells) ==
    LET shrunk == Rectangle(ar.Min.X + leftCells, ar.Min.Y + topCells,
                            ar.Max.X - rightCells, ar.Max.Y - bottomCells)
    IN  IF Dx(shrunk) < 0 \/ Dy(shrunk) < 0
        THEN [ar |-> ar, err |-> <<ErrShrink, "Shrink">>]
        ELSE [ar |-> shrunk, err |-> nil]

\* area.ShrinkPercent: top and bottom are percentages of the height, right
\* and left of the width.
ShrinkPercent(ar, topPerc, rightPerc, bottomPerc, leftPerc) ==
    Shrink(ar,
           (Dy(ar) * topPerc) \div 100,
           (Dx(ar) * rightPerc) \div 100,
           (Dy(ar) * bottomPerc) \div 100,
           (Dx(ar) * leftPerc) \div 100)

\* margin.apply(ar)
marginApply(p, ar) ==
    IF p.topCells # 0 \/ p.rightCells # 0 \/ p.bottomCells # 0 \/ p.leftCells # 0
    THEN Shrink(ar, p.topCells, p.rightCells, p.bottomCells, p.leftCells)
    ELSE IF p.topPerc # 0 \/ p.rightPerc # 0 \/ p.bottomPerc # 0 \/ p.leftPerc # 0
         THEN ShrinkPercent(ar, p.topPerc, p.rightPerc, p.bottomPerc, p.leftPerc)
         ELSE [ar |-> ar, err |-> nil]

\* padding.apply(ar)
paddingApply(p, ar) ==
    IF p.topCells # 0 \/ p.rightCells # 0 \/ p.bottomCells # 0 \/ p.leftCells # 0
    THEN Shrink(ar, p.topCells, p.rightCells, p.bottomCells, p.leftCells)
    ELSE IF p.topPerc # 0 \/ p.rightPerc # 0 \/ p.bottomPerc # 0 \/ p.leftPerc # 0
         THEN ShrinkPercent(ar, p.topPerc, p.rightPerc, p.bottomPerc, p.leftPerc)
         ELSE [ar |-> ar, err |-> nil]

-----------------------------------------------------------------------------
(* The tree as a value: paths, lookup, replacement, object identities.     *)

\* A path is a sequence over {1, 2}: 1 follows first, 2 follows second.
RECURSIVE Paths(_)
Paths(c) ==
    {<<>>}
    \cup (IF c.first = nil THEN {} ELSE {<<1>> \o p : p \in Paths(c.first[1])})
    \cup (IF c.second = nil THEN {} ELSE {<<2>> \o p : p \in Paths(c.second[1])})

RECURSIVE At(_, _)
At(c, p) ==
    IF p = <<>> THEN c
    ELSE IF Head(p) = 1 THEN At(c.first[1], Tail(p))
                        ELSE At(c.second[1], Tail(p))

RECURSIVE Replace(_, _, _)
Replace(c, p, new) ==
    IF p = <<>> THEN new
    ELSE IF Head(p) = 1
         THEN [c EXCEPT !.first = <<Replace(c.first[1], Tail(p), new)>>]
         ELSE [c EXCEPT !.second = <<Replace(c.second[1], Tail(p), new)>>]

Size(c) == Cardinality(Paths(c))

\* The containers reachable from c, as a set of records.
Containers(c) == {At(c, p) : p \in Paths(c)}

\* Object identities are kept canonical: the containers reachable from the
\* root are numbered in pre-order from 1, and an object that is not
\* reachable is Detached.  relabel returns the renumbered tree, the next
\* free number and the pairs <<old cid, new cid>>.
RECURSIVE relabel(_, _)
relabel(c, n) ==
    LET f == IF c.first = nil
             THEN [c |-> nil, n |-> n + 1, m |-> {}]
             ELSE LET r == relabel(c.first[1], n + 1)
                  IN  [c |-> <<r.c>>, n |-> r.n, m |-> r.m]
        s == IF c.second = nil
             THEN [c |-> nil, n |-> f.n, m |-> {}]
             ELSE LET r == relabel(c.second[1], f.n)
                  IN  [c |-> <<r.c>>, n |-> r.n, m |-> r.m]
    IN  [c |-> [c EXCEPT !.cid = n, !.first = f.c, !.second = s.c],
         n |-> s.n,
         m |-> {<<c.cid, n>>} \cup f.m \cup s.m]

NewCid(m, old) ==
    IF \E pr \in m : pr[1] = old
    THEN (CHOOSE pr \in m : pr[1] = old)[2]
    ELSE Detached

\* The globalOptions instances still referred to: the instances allocated
\* after the last one a container of r refers to are garbage.
Live(heap, r) ==
    SubSeq(heap, 1,
           CHOOSE n \in {c.opts.global : c \in Containers(r)} :
               \A c \in Containers(r) : c.opts.global <= n)

\* The number of margin and padding fields of o that carry a value.
SidesSet(o) ==
    Cardinality({f \in DOMAIN o.margin : o.margin[f] # 0})
    + Cardinality({f \in DOMAIN o.padding : o.padding[f] # 0})

-----------------------------------------------------------------------------
(* The state machine.                                                      *)

\* container.New with no options: a root with default options, its own
\* globalOptions instance, and the focus on the root.
Init ==
    /\ root = [cid |-> 1, first |-> nil, second |-> nil, opts |-> newOptions(nil, 1)]
    /\ globalOptions = <<NewGlobalOptions>>
    /\ focusTracker = [container |-> 1]
    /\ last = [op |-> "New", target |-> <<>>, opts |-> <<>>, err |-> nil]

\* applyOptions(c, opts...) on the container at path p of the tree.
Apply(p, opts) ==
    \E r \in {applyOptions(At(root, p),
                            [globals |-> globalOptions,
                             focus |-> focusTracker.container,
                             nextId |-> Size(root) + 1],
                            opts)} :
      \E t \in {relabel(Replace(root, p, r.c), 1)} :
        /\ t.n - 1 <= MaxContainers
        /\ \A c \in Containers(t.c) : Len(c.opts.keyFocusGroups) <= MaxGroups
        /\ \A c \in Containers(t.c) : SidesSet(c.opts) <= MaxSpacing
        /\ root' = t.c
        /\ globalOptions' = Live(r.sh.globals, t.c)
        /\ focusTracker' = [container |-> NewCid(t.m, r.sh.focus)]
        /\ last' = [op |-> "applyOptions", target |-> p, opts |-> opts, err |-> r.err]

ApplyOptions(menu) == \E p \in Paths(root) : \E opts \in menu : Apply(p, opts)

\* c.opts.margin.apply(ar) on the container at path p.
MarginApply(areas) ==
    \E p \in Paths(root) : \E ar \in areas :
        /\ last' = [op |-> "margin.apply", target |-> p, opts |-> <<>>,
                    err |-> marginApply(At(root, p).opts.margin, ar).err,
                    ar |-> ar,
                    res |-> marginApply(At(root, p).opts.margin, ar).ar]
        /\ UNCHANGED <<root, globalOptions, focusTracker>>

\* c.opts.padding.apply(ar) on the container at path p.
PaddingApply(areas) ==
    \E p \in Paths(root) : \E ar \in areas :
        /\ last' = [op |-> "padding.apply", target |-> p, opts |-> <<>>,
                    err |-> paddingApply(At(root, p).opts.padding, ar).err,
                    ar |-> ar,
                    res |-> paddingApply(At(root, p).opts.padding, ar).ar]
        /\ UNCHANGED <<root, globalOptions, focusTracker>>

\* validateOptions(root)
ValidateOptions ==
    /\ last' = [op |-> "validateOptions", target |-> <<>>, opts |-> <<>>,
                err |-> validateOptions(root)]
    /\ UNCHANGED <<root, globalOptions, focusTracker>>

-----------------------------------------------------------------------------
(* Option values, as data.                                                 *)

Opt(name, arg) == [op |-> name, arg |-> arg]
Opt0(name) == [op |-> name]
Split(name, l, r, sopts) == [op |-> name, l |-> l, r |-> r, opts |-> sopts]
KeyOpt(name, key, groups) == [op |-> name, key |-> key, groups |-> groups]
GroupsOpt(groups) == [op |-> "KeyFocusGroups", groups |-> groups]

\* The sequences over S of length 1..n.
SeqsUpTo(S, n) == UNION {[1..k -> S] : k \in 1..n}

Max(S) == CHOOSE x \in S : \A y \in S : y <= x
Min(S) == CHOOSE x \in S : \A y \in S : x <= y

-----------------------------------------------------------------------------
(* Option lists applied to one container: order, first error, no rollback. *)

\* Options whose outcome does not depend on the container: the first two
\* always succeed, the last two always fail, each with its own error.
ListOptions ==
    {Opt("BorderTitle", "a"), Opt("BorderTitle", "b"), Opt("ID", ""), Opt("MarginTop", -1)}

ListMenu == SeqsUpTo(ListOptions, MaxOpts)

ApplyList == ApplyOptions(ListMenu)

NextList == ApplyList
SpecList == Init /\ [][NextList]_vars

\* The error an always-failing option of ListOptions returns.
FailsWith(o) ==
    IF o = Opt("ID", "") THEN <<ErrEmptyID, "ID">>
    ELSE IF o = Opt("MarginTop", -1) THEN <<ErrRange, "MarginTop">>
    ELSE nil

\* The position of the first always-failing option, Len + 1 when none.
FirstFailing(opts) ==
    Min({k \in 1..Len(opts) : FailsWith(opts[k]) # nil} \cup {Len(opts) + 1})

\* The argument of the last option named name among opts[1..n], else old.
LastWrite(opts, n, name, old) ==
    LET at == {i \in 1..n : opts[i].op = name}
    IN  IF at = {} THEN old ELSE opts[Max(at)].arg

\* C1: applyOptions applies the options in list order; when option k is the
\* first to fail, its error is returned, options k+1.. leave no trace and
\* the effects of options 1..k-1 stay on the container; when none fails the
\* call succeeds with all of them applied.
C1_InOrderStopAtFirstError ==
    [][ last'.op = "applyOptions" /\ (\A i \in DOMAIN last'.opts : last'.opts[i] \in ListOptions) =>
        LET opts == last'.opts
            k == FirstFailing(opts)
            old == At(root, last'.target).opts
            new == At(root', last'.target).opts
        IN  /\ last'.err = (IF k > Len(opts) THEN nil ELSE FailsWith(opts[k]))
            /\ new.borderTitle = LastWrite(opts, k - 1, "BorderTitle", old.borderTitle)
            /\ new.id = old.id
            /\ new.margin = old.margin
      ]_vars

\* A call whose second of three options failed: the first is on the
\* container, the third is not.
C1_Witness ==
    /\ last.op = "applyOptions"
    /\ Len(last.opts) = 3
    /\ last.opts[1] = Opt("BorderTitle", "a")
    /\ last.opts[2] = Opt("ID", "")
    /\ last.opts[3] = Opt("BorderTitle", "b")
    /\ last.err = <<ErrEmptyID, "ID">>
    /\ root.opts.borderTitle = "a"

-----------------------------------------------------------------------------
(* Structure and focus: splits, widgets, Clear and Focused.                *)

TreeLeafOptions ==
    {Opt0("Clear"), Opt("PlaceWidget", "w1"), Opt0("Focused"), Opt("ID", "")}

\* Option lists given to the children of a split.
TreeChildLists ==
    {<<>>, <<Opt0("Focused")>>, <<Opt("PlaceWidget", "w1")>>, <<Opt("ID", "")>>,
     <<Opt0("Focused"), Opt("ID", "")>>}

\* Vertical splits with every pair of child lists, horizontal splits with
\* the empty and the failing child list, and a split whose split option is
\* rejected.
TreeSplits ==
    {Split("SplitVertical", l, r, <<>>) : l \in TreeChildLists, r \in TreeChildLists}
    \cup {Split("SplitHorizontal", t, b, <<>>) :
              t \in {<<>>, <<Opt("ID", "")>>}, b \in {<<>>, <<Opt("ID", "")>>}}
    \cup {Split(n, <<Opt0("Focused")>>, <<>>, <<Opt("SplitPercent", 0)>>) :
              n \in {"SplitVertical", "SplitHorizontal"}}

TreeMenu == {<<o>> : o \in TreeLeafOptions \cup TreeSplits}

ApplyTree == ApplyOptions(TreeMenu)

NextTree == ApplyTree
SpecTree == Init /\ [][NextTree]_vars

HasWidget(c) == c.opts.widget # nilWidget

\* C2: every container has two children and no widget, or a widget and no
\* children, or neither; none has both a widget and a child.
C2_ChildrenXorWidget ==
    \A c \in Containers(root) :
        \/ c.first # nil /\ c.second # nil /\ ~HasWidget(c)
        \/ c.first = nil /\ c.second = nil

\* Whether the container object f is reachable from r.
InTree(r, f) == \E c \in Containers(r) : c.cid = f

\* p is a proper prefix of q: the container at p is an ancestor of the one at q.
IsAncestor(p, q) == Len(p) < Len(q) /\ SubSeq(q, 1, Len(p)) = p

\* C6: a container of the tree holds the focus at any time: when Clear,
\* PlaceWidget or a new split is applied to an ancestor of the focused
\* container, the container recorded as focused afterwards is still
\* reachable from the root.
C6_FocusedStaysInTree ==
    [][ ( /\ last'.op = "applyOptions"
          /\ last'.opts[1].op \in {"Clear", "PlaceWidget", "SplitVertical", "SplitHorizontal"}
          /\ \E q \in Paths(root) :
                 /\ At(root, q).cid = focusTracker.container
                 /\ IsAncestor(last'.target, q) )
        => InTree(root', focusTracker'.container)
      ]_vars

-----------------------------------------------------------------------------
(* Single options whose argument is rejected, on one container.            *)

\* Options that are accepted, and options that are rejected for a value
\* out of range or for a conflict with what is configured; some of the
\* rejected ones take several values of which only a later one is bad.
ArgsMenu ==
    {<<GroupsOpt(gs)>> : gs \in {<<>>, <<1>>, <<1, -1>>}}
    \cup {<<KeyOpt(n, "k1", gs)>> :
              n \in {"KeyFocusGroupsNext", "KeyFocusGroupsPrevious"},
              gs \in {<<1>>, <<-1>>, <<2, -1>>}}
    \cup {<<Split(n, <<>>, <<>>, so)>> :
              n \in {"SplitVertical", "SplitHorizontal"},
              so \in {<<Opt("SplitPercent", 0)>>,
                       <<Opt("SplitPercent", 30), Opt("SplitFixed", -1)>>}}
    \cup {<<Opt("MarginTop", 1)>>, <<Opt("MarginTop", -1)>>,
           <<Opt("MarginTopPercent", 50)>>, <<Opt("MarginTopPercent", 101)>>,
           <<Opt("ID", "")>>}

ApplyArgs == ApplyOptions(ArgsMenu)

NextArgs == ApplyArgs
SpecArgs == Init /\ [][NextArgs]_vars

\* Errors an option returns for an argument that is out of range or that
\* conflicts with what is already configured.
IsArgumentError(err) ==
    err # nil /\ err[1] \in {ErrRange, ErrBoth, ErrKeyAssigned, ErrEmptyID}

\* C3: an option validates its argument before it mutates state: when a
\* single option returns an out-of-range or conflict error, the options of
\* the container it was applied to and the global options of the tree are
\* what they were before.
C3_ValidateBeforeMutate ==
    [][ ( /\ last'.op = "applyOptions"
          /\ Len(last'.opts) = 1
          /\ IsArgumentError(last'.err) )
        => /\ At(root', last'.target).opts = At(root, last'.target).opts
           /\ globalOptions' = globalOptions
      ]_vars

-----------------------------------------------------------------------------
(* Split sizing: the four split options and validateSplits.                *)

SplitSizings ==
    {<<>>,
     <<Opt("SplitPercent", 30)>>, <<Opt("SplitPercent", 50)>>,
     <<Opt("SplitPercentFromEnd", 30)>>,
     <<Opt("SplitFixed", 3)>>, <<Opt("SplitFixedFromEnd", 3)>>,
     <<Opt("SplitPercent", 0)>>, <<Opt("SplitPercent", 100)>>, <<Opt("SplitFixed", -1)>>,
     <<Opt("SplitPercent", 50), Opt("SplitFixed", 3)>>,
     <<Opt("SplitPercent", 30), Opt("SplitFixed", 3)>>,
     <<Opt("SplitFixedFromEnd", 3), Opt("SplitPercentFromEnd", 30)>>}

SplitMenu ==
    {<<Split("SplitVertical", <<>>, <<>>, so)>> : so \in SplitSizings}
    \cup {<<Split("SplitHorizontal", <<>>, <<>>, so)>> :
              so \in {<<>>, <<Opt("SplitFixed", 0)>>, <<Opt("SplitPercentFromEnd", 100)>>}}
    \cup {<<Opt0("Clear")>>, <<Opt("PlaceWidget", "w1")>>}

ApplySplit == ApplyOptions(SplitMenu)

NextSplit == ApplySplit \/ ValidateOptions
SpecSplit == Init /\ [][NextSplit]_vars

AcceptedPercent(o) ==
    o.op \in {"SplitPercent", "SplitPercentFromEnd"} /\ 0 < o.arg /\ o.arg < 100

AcceptedFixed(o) ==
    o.op \in {"SplitFixed", "SplitFixedFromEnd"} /\ o.arg >= 0

\* C4: a container on which both an accepted percentage split size and an
\* accepted fixed split size have been set fails: the split returns an
\* error, or validateOptions on the tree returns one.
C4_PercentAndFixedFails ==
    ( /\ last.op = "applyOptions"
      /\ Len(last.opts) = 1
      /\ last.opts[1].op \in {"SplitVertical", "SplitHorizontal"}
      /\ \E i \in DOMAIN last.opts[1].opts : AcceptedPercent(last.opts[1].opts[i])
      /\ \E i \in DOMAIN last.opts[1].opts : AcceptedFixed(last.opts[1].opts[i]) )
    => (last.err # nil \/ validateOptions(root) # nil)

-----------------------------------------------------------------------------
(* Margin and padding: the sixteen options and the two apply methods.      *)

\* The cell option and the percent option of each side of margin and of
\* padding, with the fields they write.
SpacingSides ==
    { [rec |-> "margin", cells |-> "topCells", perc |-> "topPerc",
       cellOpt |-> "MarginTop", percOpt |-> "MarginTopPercent"],
      [rec |-> "margin", cells |-> "rightCells", perc |-> "rightPerc",
       cellOpt |-> "MarginRight", percOpt |-> "MarginRightPercent"],
      [rec |-> "margin", cells |-> "bottomCells", perc |-> "bottomPerc",
       cellOpt |-> "MarginBottom", percOpt |-> "MarginBottomPercent"],
      [rec |-> "margin", cells |-> "leftCells", perc |-> "leftPerc",
       cellOpt |-> "MarginLeft", percOpt |-> "MarginLeftPercent"],
      [rec |-> "padding", cells |-> "topCells", perc |-> "topPerc",
       cellOpt |-> "PaddingTop", percOpt |-> "PaddingTopPercent"],
      [rec |-> "padding", cells |-> "rightCells", perc |-> "rightPerc",
       cellOpt |-> "PaddingRight", percOpt |-> "PaddingRightPercent"],
      [rec |-> "padding", cells |-> "bottomCells", perc |-> "bottomPerc",
       cellOpt |-> "PaddingBottom", percOpt |-> "PaddingBottomPercent"],
      [rec |-> "padding", cells |-> "leftCells", perc |-> "leftPerc",
       cellOpt |-> "PaddingLeft", percOpt |-> "PaddingLeftPercent"] }

CellValues == {-1, 0, 1}
PercValues == {0, 25, 101}

SpacingMenu ==
    {<<Opt(s.cellOpt, v)>> : s \in SpacingSides, v \in CellValues}
    \cup {<<Opt(s.percOpt, v)>> : s \in SpacingSides, v \in PercValues}

\* Areas large enough that no combination of the values above empties them.
Areas == {Rectangle(0, 0, 8, 8), Rectangle(2, 1, 6, 9)}

ApplySpacing == ApplyOptions(SpacingMenu)
MarginApplyAreas == MarginApply(Areas)
PaddingApplyAreas == PaddingApply(Areas)

NextSpacing == ApplySpacing \/ MarginApplyAreas \/ PaddingApplyAreas
SpecSpacing == Init /\ [][NextSpacing]_vars

\* What one side is shrunk by when the sides are treated independently:
\* its cells when set, else its percentage of dim when set, else nothing.
SideShrink(cells, perc, dim) ==
    IF cells # 0 THEN cells
    ELSE IF perc # 0 THEN (dim * perc) \div 100
    ELSE 0

PerSide(s, ar) ==
    Rectangle(ar.Min.X + SideShrink(s.leftCells, s.leftPerc, Dx(ar)),
              ar.Min.Y + SideShrink(s.topCells, s.topPerc, Dy(ar)),
              ar.Max.X - SideShrink(s.rightCells, s.rightPerc, Dx(ar)),
              ar.Max.Y - SideShrink(s.bottomCells, s.bottomPerc, Dy(ar)))

\* C5: margin and padding shrink each side of the area independently, by
\* the side's cells if set, else by its percentage if set; a cell value on
\* one side and a percentage on another shrink both sides.
C5_SidesIndependent ==
    /\ last.op = "margin.apply" =>
           last.res = PerSide(At(root, last.target).opts.margin, last.ar)
    /\ last.op = "padding.apply" =>
           last.res = PerSide(At(root, last.target).opts.padding, last.ar)

\* The spacing record rec ("margin" or "padding") of options o.
Spacing(o, rec) == IF rec = "margin" THEN o.margin ELSE o.padding

\* C7: no margin or padding side ever has both a positive cell value and a
\* positive percentage; the cell option with any value fails while the
\* side's percentage is positive, the percent option with any value fails
\* while the side's cell value is positive, and neither changes the
\* margin or the padding then.
C7_CellsXorPercent ==
    [][ last'.op = "applyOptions" =>
        LET old == At(root, last'.target).opts
            new == At(root', last'.target).opts
            o == last'.opts[1]
        IN  \A s \in SpacingSides :
              /\ ~( Spacing(new, s.rec)[s.cells] > 0 /\ Spacing(new, s.rec)[s.perc] > 0 )
              /\ ( o.op = s.cellOpt /\ Spacing(old, s.rec)[s.perc] > 0 )
                   => ( last'.err # nil /\ new.margin = old.margin
                                        /\ new.padding = old.padding )
              /\ ( o.op = s.percOpt /\ Spacing(old, s.rec)[s.cells] > 0 )
                   => ( last'.err # nil /\ new.margin = old.margin
                                        /\ new.padding = old.padding )
      ]_vars

\* PaddingLeft(0) was just rejected because the left padding holds a
\* percentage.
C7_Witness ==
    /\ last.op = "applyOptions"
    /\ last.opts = <<Opt("PaddingLeft", 0)>>
    /\ last.err = <<ErrBoth, "PaddingLeft">>
    /\ root.opts.padding.leftPerc = 25
    /\ root.opts.padding.leftCells = 0

-----------------------------------------------------------------------------
(* Identifiers and the tree validator.                                     *)

IdChildLists == {<<>>, <<Opt("ID", "a")>>, <<Opt("ID", "b")>>}

\* A split that sets a percentage and a fixed size before it is rejected,
\* which leaves both on the container without creating children.
ConflictingSplit ==
    Split("SplitVertical", <<>>, <<>>,
          <<Opt("SplitPercent", 30), Opt("SplitFixed", 3), Opt("SplitPercent", 0)>>)

IdsMenu ==
    {<<Opt("ID", "a")>>, <<Opt("ID", "b")>>, <<Opt("ID", "")>>, <<ConflictingSplit>>}
    \cup {<<Split("SplitVertical", l, r, <<>>)>> : l \in IdChildLists, r \in IdChildLists}
    \cup {<<Split("SplitHorizontal", <<>>, <<>>, <<>>)>>}

ApplyIds == ApplyOptions(IdsMenu)

NextIds == ApplyIds \/ ValidateOptions
SpecIds == Init /\ [][NextIds]_vars

\* Two distinct containers of the tree carry the same non-empty identifier.
DuplicateIds(r) ==
    \E p \in Paths(r) : \E q \in Paths(r) :
        p # q /\ At(r, p).opts.id # "" /\ At(r, p).opts.id = At(r, q).opts.id

\* C8: validateOptions returns an error whenever two distinct containers
\* carry the same non-empty identifier, and a duplicate-identifier error
\* only then: containers with an empty identifier never cause one.
C8_DuplicateIds ==
    last.op = "validateOptions" =>
        /\ DuplicateIds(root) => last.err # nil
        /\ (last.err # nil /\ last.err[1] = ErrDuplicateID) =>
               (DuplicateIds(root) /\ last.err[2] # "")

\* validateOptions passed a tree of three containers whose identifiers are
\* all empty.
C8_Witness ==
    /\ last.op = "validateOptions"
    /\ last.err = nil
    /\ Size(root) = 3
    /\ \A c \in Containers(root) : c.opts.id = ""

\* p comes before q in pre-order: p is an ancestor of q, or p branches to
\* first where q branches to second.
Before(p, q) ==
    \/ IsAncestor(p, q)
    \/ \E i \in 1..Len(p) :
           i <= Len(q) /\ SubSeq(p, 1, i - 1) = SubSeq(q, 1, i - 1) /\ p[i] < q[i]

\* The container at p repeats the identifier of a container before it.
RepeatsId(r, p) ==
    /\ At(r, p).opts.id # ""
    /\ \E q \in Paths(r) : Before(q, p) /\ At(r, q).opts.id = At(r, p).opts.id

\* The container at p has a fixed and a percentage split size.
SplitsConflict(r, p) ==
    /\ At(r, p).opts.splitFixed > DefaultSplitFixed
    /\ At(r, p).opts.splitPercent # DefaultSplitPercent

\* Every problem of the tree, as the message that reports it.
Problems(r) ==
    {<<ErrDuplicateID, At(r, p).opts.id>> : p \in {q \in Paths(r) : RepeatsId(r, q)}}
    \cup {<<ErrSplits, ToString(At(r, p).opts.splitFixed),
             ToString(At(r, p).opts.splitPercent)>> :
              p \in {q \in Paths(r) : SplitsConflict(r, q)}}

\* C9 as stated: the error of one validateOptions pass covers every problem
\* of the tree.
C9_ReportsAllProblems ==
    last.op = "validateOptions" => \A m \in Problems(root) : m = last.err

\* C9, amended: one validateOptions pass reports the first problem in
\* pre-order and nothing else: the error is that of the first container
\* with a problem, its duplicate identifier if it has one, else its
\* conflicting split sizes; there is no error when there is no problem.
C9_ReportsFirstProblem ==
    last.op = "validateOptions" =>
        LET bad == {p \in Paths(root) : RepeatsId(root, p) \/ SplitsConflict(root, p)}
        IN  IF bad = {}
            THEN last.err = nil
            ELSE LET p == CHOOSE x \in bad : \A y \in bad \ {x} : Before(x, y)
                 IN  last.err =
                         IF RepeatsId(root, p)
                         THEN <<ErrDuplicateID, At(root, p).opts.id>>
                         ELSE <<ErrSplits, ToString(At(root, p).opts.splitFixed),
                                ToString(At(root, p).opts.splitPercent)>>

\* validateOptions ran on a tree whose second child both repeats the
\* identifier of the first and has conflicting split sizes, and reported
\* the identifier alone.
C9_Witness ==
    /\ last.op = "validateOptions"
    /\ Size(root) = 3
    /\ RepeatsId(root, <<2>>)
    /\ SplitsConflict(root, <<2>>)
    /\ last.err = <<ErrDuplicateID, At(root, <<2>>).opts.id>>

-----------------------------------------------------------------------------
(* Inherited options: the four colors.                                     *)

ColorOptions ==
    {Opt("BorderColor", "ColorRed"), Opt("FocusedColor", "ColorRed"),
     Opt("TitleColor", "ColorRed"), Opt("TitleFocusedColor", "ColorRed")}

\* The field of inherited a color option writes.
ColorField(name) ==
    CASE name = "BorderColor" -> "borderColor"
      [] name = "FocusedColor" -> "focusedColor"
      [] name = "TitleColor" -> "titleColor"
      [] name = "TitleFocusedColor" -> "titleFocusedColor"

InheritMenu ==
    {<<o>> : o \in ColorOptions}
    \cup {<<Split("SplitVertical", l, r, <<>>)>> :
              l \in {<<>>, <<Opt("BorderColor", "ColorRed")>>},
              r \in {<<>>, <<Opt("TitleColor", "ColorRed")>>}}
    \cup {<<Split("SplitHorizontal", <<Opt("FocusedColor", "ColorRed")>>, <<>>, <<>>)>>}

ApplyInherit == ApplyOptions(InheritMenu)

NextInherit == ApplyInherit
SpecInherit == Init /\ [][NextInherit]_vars

\* What a child created with option list l starts with and then overrides,
\* given the inherited options inh of its parent; l holds at most one
\* color option.
ChildInherited(inh, l) ==
    IF l = <<>> THEN inh ELSE [inh EXCEPT ![ColorField(l[1].op)] = l[1].arg]

\* C10: a child starts with a copy of its parent's inherited colors as they
\* are when the child is created; a color option applied to a container
\* afterwards changes the inherited colors of no other container, be it
\* parent, child or sibling.
C10_InheritedCopiedOnce ==
    [][ last'.op = "applyOptions" =>
        LET o == last'.opts[1]
            t == last'.target
        IN  /\ o \in ColorOptions =>
                  /\ Paths(root') = Paths(root)
                  /\ At(root', t).opts.inherited[ColorField(o.op)] = o.arg
                  /\ \A q \in Paths(root) \ {t} :
                         At(root', q).opts.inherited = At(root, q).opts.inherited
            /\ o.op \in {"SplitVertical", "SplitHorizontal"} =>
                  /\ At(root', t).opts.inherited = At(root, t).opts.inherited
                  /\ At(root', t \o <<1>>).opts.inherited =
                         ChildInherited(At(root, t).opts.inherited, o.l)
                  /\ At(root', t \o <<2>>).opts.inherited =
                         ChildInherited(At(root, t).opts.inherited, o.r)
      ]_vars

\* The parent was given a red border after its children were created with
\* the default one, and a red title color before: the children still have
\* the default border, and the title color they were created with.
C10_Witness ==
    /\ last.op = "applyOptions"
    /\ last.target = <<>>
    /\ last.opts = <<Opt("BorderColor", "ColorRed")>>
    /\ Size(root) = 3
    /\ root.opts.inherited.borderColor = "ColorRed"
    /\ root.opts.inherited.titleColor = "ColorRed"
    /\ \A q \in {<<1>>, <<2>>} :
           /\ At(root, q).opts.inherited.borderColor = "ColorDefault"
           /\ At(root, q).opts.inherited.titleColor = "ColorRed"

-----------------------------------------------------------------------------
(* Global options: the focus keys and the key to focus group mappings.     *)

KeyNames == {"k1", "k2"}

\* Option lists given to the children of a split: each writes one global
\* option from the child that is being created.
KeysChildLists ==
    {<<>>, <<Opt("KeyFocusNext", "k2")>>,
     <<KeyOpt("KeyFocusGroupsPrevious", "k1", <<1>>)>>}

\* The four global options with both keys, the group options with no group,
\* one group, and a group followed by a rejected one; splits, and Clear.
KeysMenu ==
    {<<Opt(n, k)>> : n \in {"KeyFocusNext", "KeyFocusPrevious"}, k \in KeyNames}
    \cup {<<KeyOpt(n, k, gs)>> :
              n \in {"KeyFocusGroupsNext", "KeyFocusGroupsPrevious"},
              k \in KeyNames,
              gs \in {<<>>, <<1>>, <<1, -1>>}}
    \cup {<<Split("SplitVertical", l, r, <<>>)>> :
              l \in KeysChildLists, r \in KeysChildLists}
    \cup {<<Opt0("Clear")>>}

ApplyKeys == ApplyOptions(KeysMenu)

NextKeys == ApplyKeys
SpecKeys == Init /\ [][NextKeys]_vars

IsGlobalOption(o) ==
    o.op \in {"KeyFocusNext", "KeyFocusPrevious",
              "KeyFocusGroupsNext", "KeyFocusGroupsPrevious"}

\* The globalOptions instance g holds what the global option o wrote.
Observes(g, o) ==
    CASE o.op = "KeyFocusNext" -> g.keyFocusNext = o.arg
      [] o.op = "KeyFocusPrevious" -> g.keyFocusPrevious = o.arg
      [] o.op = "KeyFocusGroupsNext" ->
             \A i \in DOMAIN o.groups :
                 /\ o.key \in DOMAIN g.keyFocusGroupsNext
                 /\ o.groups[i] \in g.keyFocusGroupsNext[o.key]
      [] o.op = "KeyFocusGroupsPrevious" ->
             \A i \in DOMAIN o.groups :
                 /\ o.key \in DOMAIN g.keyFocusGroupsPrevious
                 /\ o.groups[i] \in g.keyFocusGroupsPrevious[o.key]

\* The global options written by a successful call: the option itself, or
\* the options in the child lists of a split.
GlobalWrites(o) ==
    IF IsGlobalOption(o) THEN {o}
    ELSE IF o.op \in {"SplitVertical", "SplitHorizontal"}
         THEN {o.l[i] : i \in {j \in DOMAIN o.l : IsGlobalOption(o.l[j])}}
              \cup {o.r[i] : i \in {j \in DOMAIN o.r : IsGlobalOption(o.r[j])}}
         ELSE {}

\* C11: all containers of a tree share one globalOptions record: every
\* container refers to the record the root refers to, and after a global
\* option (KeyFocusNext, KeyFocusPrevious, KeyFocusGroupsNext,
\* KeyFocusGroupsPrevious) succeeded on any container, also on a child that
\* a split is creating, every container of the tree observes what it wrote.
C11_OneGlobalRecord ==
    /\ [](\A c \in Containers(root) : c.opts.global = root.opts.global)
    /\ [][ ( /\ last'.op = "applyOptions"
             /\ last'.err = nil
             /\ Len(last'.opts) = 1 )
           => \A o \in GlobalWrites(last'.opts[1]) :
                  \A c \in Containers(root') :
                      Observes(globalOptions'[c.opts.global], o)
         ]_vars

\* The second child of a split set a key of the group mapping, and the
\* root and the first child see it.
C11_Witness ==
    /\ last.op = "applyOptions"
    /\ last.target = <<2>>
    /\ last.opts = <<KeyOpt("KeyFocusGroupsNext", "k1", <<1>>)>>
    /\ last.err = nil
    /\ root.first # nil
    /\ globalOptions[root.opts.global].keyFocusGroupsNext = [k \in {"k1"} |-> {1}]
    /\ globalOptions[root.first[1].opts.global].keyFocusGroupsNext = [k \in {"k1"} |-> {1}]

-----------------------------------------------------------------------------
(* Clear followed by PlaceWidget.                                          *)

\* Clear and PlaceWidget alone and in a list, with two widgets, and splits
\* whose children are empty, hold a widget or take the focus.
RoundTripMenu ==
    {<<Opt0("Clear"), Opt("PlaceWidget", w)>> : w \in {"w1", "w2"}}
    \cup {<<Opt("PlaceWidget", w)>> : w \in {"w1", "w2"}}
    \cup {<<Opt0("Clear")>>}
    \cup {<<Split(n, l, r, <<>>)>> :
              n \in {"SplitVertical", "SplitHorizontal"},
              l \in {<<>>, <<Opt("PlaceWidget", "w1")>>},
              r \in {<<>>, <<Opt0("Focused")>>}}

ApplyRoundTrip == ApplyOptions(RoundTripMenu)

NextRoundTrip == ApplyRoundTrip
SpecRoundTrip == Init /\ [][NextRoundTrip]_vars

\* The container at path p of r holds exactly the widget w and no child.
LeafWith(r, p, w) ==
    /\ At(r, p).opts.widget = w
    /\ At(r, p).first = nil
    /\ At(r, p).second = nil

\* C12: Clear() and then PlaceWidget(w) on a container, in one option list
\* or in two successive calls, succeeds and leaves the container with the
\* widget w and without a first or a second child, whatever it was before
\* (empty, holding a widget, or split).
C12_ClearThenPlaceWidget ==
    [][ /\ ( /\ last'.op = "applyOptions"
             /\ Len(last'.opts) = 2
             /\ last'.opts[1] = Opt0("Clear")
             /\ last'.opts[2].op = "PlaceWidget" )
           => /\ last'.err = nil
              /\ LeafWith(root', last'.target, last'.opts[2].arg)
        /\ ( /\ last.op = "applyOptions"
             /\ last.opts = <<Opt0("Clear")>>
             /\ last'.op = "applyOptions"
             /\ last'.target = last.target
             /\ Len(last'.opts) = 1
             /\ last'.opts[1].op = "PlaceWidget" )
           => /\ last'.err = nil
              /\ LeafWith(root', last'.target, last'.opts[1].arg)
      ]_vars

\* Clear and PlaceWidget(w2) were applied to the root and it is a leaf with
\* w2; the focus is on a container that is no longer in the tree, a child
\* of a split the root had.
C12_Witness ==
    /\ last.op = "applyOptions"
    /\ last.target = <<>>
    /\ last.opts = <<Opt0("Clear"), Opt("PlaceWidget", "w2")>>
    /\ LeafWith(root, <<>>, "w2")
    /\ focusTracker.container = Detached

-----------------------------------------------------------------------------
(* The order of the steps of a split.                                      *)

IsSplit(o) == o.op \in {"SplitVertical", "SplitHorizontal"}

\* Splits whose child lists take the focus, place a widget or fail, in the
\* first child, in the second and in both; splits whose sizing option is
\* rejected; Focused and Clear on their own.
OrderMenu ==
    {<<Split("SplitVertical", l, r, <<>>)>> :
         l \in {<<>>, <<Opt0("Focused"), Opt("ID", "")>>},
         r \in {<<>>, <<Opt0("Focused")>>}}
    \cup {<<Split("SplitHorizontal", <<Opt0("Focused")>>, r, <<>>)>> :
              r \in {<<Opt0("Focused")>>, <<Opt0("Focused"), Opt("ID", "")>>,
                      <<Opt("ID", "")>>}}
    \cup {<<Split("SplitVertical", <<Opt("PlaceWidget", "w1")>>, <<>>, <<>>)>>}
    \cup {<<Split(n, <<Opt0("Focused")>>, <<>>, <<Opt("SplitPercent", 0)>>)>> :
              n \in {"SplitVertical", "SplitHorizontal"}}
    \cup {<<Opt0("Focused")>>, <<Opt0("Clear")>>, <<Opt("PlaceWidget", "w2")>>}

ApplyOrder == ApplyOptions(OrderMenu)

NextOrder == ApplyOrder
SpecOrder == Init /\ [][NextOrder]_vars

\* A child (nil or <<container>>) without the object identities, which are
\* renumbered when the tree changes shape: what the child and its
\* descendants hold.
RECURSIVE Content(_)
Content(ch) ==
    IF ch = nil THEN nil
    ELSE <<[ch[1] EXCEPT !.cid = 0,
                         !.first = Content(ch[1].first),
                         !.second = Content(ch[1].second)]>>

\* Whether Focused() is among opts[1..n].
FocusedWithin(opts, n) == \E i \in 1..n : opts[i] = Opt0("Focused")

\* C13: a split removes the widget, then applies its sizing options, then
\* creates the first child and applies its option list, and only then
\* creates the second child and applies its option list.  When a sizing
\* option fails no child is created and no child option has run; when the
\* first child's options fail the second child is not created and none of
\* its options has run; when the second child's options fail the first
\* child is in place.
C13_SplitStepsInOrder ==
    [][ ( /\ last'.op = "applyOptions"
          /\ Len(last'.opts) = 1
          /\ IsSplit(last'.opts[1]) )
        => LET o == last'.opts[1]
               old == At(root, last'.target)
               new == At(root', last'.target)
               sizingFails == \E i \in DOMAIN o.opts :
                                  ~AcceptedPercent(o.opts[i]) /\ ~AcceptedFixed(o.opts[i])
               lk == FirstFailing(o.l)
               rk == FirstFailing(o.r)
               focus == focusTracker.container
               focus2 == focusTracker'.container
           IN  /\ new.opts.widget = nilWidget
               /\ sizingFails =>
                      /\ last'.err # nil /\ last'.err[1] = ErrRange
                      /\ Content(new.first) = Content(old.first)
                      /\ Content(new.second) = Content(old.second)
                      /\ focus2 = focus
               /\ (~sizingFails /\ lk <= Len(o.l)) =>
                      /\ last'.err = FailsWith(o.l[lk])
                      /\ Content(new.first) = Content(old.first)
                      /\ Content(new.second) = Content(old.second)
                      /\ focus2 = (IF FocusedWithin(o.l, lk - 1) THEN Detached ELSE focus)
               /\ (~sizingFails /\ lk > Len(o.l) /\ rk <= Len(o.r)) =>
                      /\ last'.err = FailsWith(o.r[rk])
                      /\ new.first # nil
                      /\ new.first[1].opts.widget =
                             LastWrite(o.l, Len(o.l), "PlaceWidget", nilWidget)
                      /\ Content(new.second) = Content(old.second)
                      /\ FocusedWithin(o.r, rk - 1) => focus2 = Detached
                      /\ (~FocusedWithin(o.r, rk - 1) /\ FocusedWithin(o.l, Len(o.l)))
                             => focus2 = new.first[1].cid
               /\ (~sizingFails /\ lk > Len(o.l) /\ rk > Len(o.r)) =>
                      /\ last'.err = nil
                      /\ new.first # nil /\ new.second # nil
                      /\ new.first[1].opts.widget =
                             LastWrite(o.l, Len(o.l), "PlaceWidget", nilWidget)
                      /\ new.second[1].opts.widget =
                             LastWrite(o.r, Len(o.r), "PlaceWidget", nilWidget)
                      /\ FocusedWithin(o.r, Len(o.r)) => focus2 = new.second[1].cid
                      /\ (~FocusedWithin(o.r, Len(o.r)) /\ FocusedWithin(o.l, Len(o.l)))
                             => focus2 = new.first[1].cid
      ]_vars

\* A split whose first child's list took the focus and then failed, and
\* whose second child's list asks for the focus: no child is linked and the
\* focus is on the first child that was being created, not on a second one.
C13_Witness ==
    /\ last.op = "applyOptions"
    /\ last.target = <<>>
    /\ last.opts = <<Split("SplitVertical", <<Opt0("Focused"), Opt("ID", "")>>,
                           <<Opt0("Focused")>>, <<>>)>>
    /\ last.err = <<ErrEmptyID, "ID">>
    /\ root.first = nil /\ root.second = nil
    /\ focusTracker.container = Detached

-----------------------------------------------------------------------------
(* focusGroups.firstMatching on the groups of a key and of a container.    *)

MatchGroups == {0, 1, 2}

\* Every set of groups a key can be mapped to, with every group list of up
\* to MaxGroups groups a container can declare, duplicates included.
InitMatch ==
    /\ root = [cid |-> 1, first |-> nil, second |-> nil, opts |-> newOptions(nil, 1)]
    /\ globalOptions = <<NewGlobalOptions>>
    /\ focusTracker = [container |-> 1]
    /\ \E fg \in SUBSET MatchGroups :
         \E contGroups \in {<<>>} \cup SeqsUpTo(MatchGroups, MaxGroups) :
             last = [op |-> "focusGroups", fg |-> fg, contGroups |-> contGroups]

FirstMatching ==
    /\ last.op = "focusGroups"
    /\ last' = [op |-> "firstMatching", fg |-> last.fg, contGroups |-> last.contGroups,
                res |-> firstMatching(last.fg, last.contGroups)]
    /\ UNCHANGED <<root, globalOptions, focusTracker>>

NextMatch == FirstMatching
SpecMatch == InitMatch /\ [][NextMatch]_vars

\* C14: firstMatching returns (true, g) with g the earliest element of
\* contGroups, in the declared order, that is in the key's group set, and
\* (false, 0) exactly when no element of contGroups is in the set.
C14_FirstMatchingInDeclaredOrder ==
    last.op = "firstMatching" =>
        LET cg == last.contGroups
            hits == {i \in DOMAIN cg : cg[i] \in last.fg}
        IN  /\ (hits = {}) <=> (last.res = <<FALSE, 0>>)
            /\ hits # {} => last.res = <<TRUE, cg[Min(hits)]>>

\* The key's set {1, 2} and the container's groups [2, 1] resolve to 2.
C14_Witness ==
    /\ last.op = "firstMatching"
    /\ last.fg = {1, 2}
    /\ last.contGroups = <<2, 1>>
    /\ last.res = <<TRUE, 2>>

-----------------------------------------------------------------------------
(* A key is in one of the two key to focus group mappings only.            *)

\* The mapping opposite to the one the group option o writes.
OppositeMapping(g, o) ==
    IF o.op = "KeyFocusGroupsNext" THEN g.keyFocusGroupsPrevious ELSE g.keyFocusGroupsNext

\* C15: no key is in both the next-mapping and the previous-mapping of the
\* global options, and KeyFocusGroupsNext or KeyFocusGroupsPrevious given at
\* least one group for a key the opposite mapping holds returns an error,
\* on whichever container of the tree it is applied.
C15_KeyInOneMapping ==
    /\ [](\A i \in DOMAIN globalOptions :
              DOMAIN globalOptions[i].keyFocusGroupsNext
              \cap DOMAIN globalOptions[i].keyFocusGroupsPrevious = {})
    /\ [][ ( /\ last'.op = "applyOptions"
             /\ Len(last'.opts) = 1
             /\ last'.opts[1].op \in {"KeyFocusGroupsNext", "KeyFocusGroupsPrevious"}
             /\ Len(last'.opts[1].groups) >= 1
             /\ last'.opts[1].key \in
                    DOMAIN OppositeMapping(
                               globalOptions[At(root, last'.target).opts.global],
                               last'.opts[1]) )
           => last'.err # nil
         ]_vars

\* On the first child of a split, KeyFocusGroupsPrevious for k1 was rejected
\* because the next-mapping holds k1.
C15_Witness ==
    /\ last.op = "applyOptions"
    /\ last.target = <<1>>
    /\ last.opts = <<KeyOpt("KeyFocusGroupsPrevious", "k1", <<1>>)>>
    /\ last.err = <<ErrKeyAssigned, "KeyFocusGroupsPrevious">>
    /\ "k1" \in DOMAIN globalOptions[root.opts.global].keyFocusGroupsNext
    /\ "k1" \notin DOMAIN globalOptions[root.opts.global].keyFocusGroupsPrevious

-----------------------------------------------------------------------------
(* The ranges of the four split sizing options.                            *)

\* Percentages at and next to both ends of the range, cell counts at and
\* next to the lower end, and an accepted option followed by a rejected one.
SizingValues ==
    {Opt(n, v) : n \in {"SplitPercent", "SplitPercentFromEnd"}, v \in {0, 1, 99, 100}}
    \cup {Opt(n, v) : n \in {"SplitFixed", "SplitFixedFromEnd"}, v \in {-1, 0, 3}}

SizingMenu ==
    {<<Split("SplitVertical", <<>>, <<>>, <<so>>)>> : so \in SizingValues}
    \cup {<<Split("SplitHorizontal", <<>>, <<>>, so)>> :
              so \in {<<Opt("SplitPercent", -1)>>, <<Opt("SplitPercentFromEnd", 101)>>,
                       <<Opt("SplitFixedFromEnd", 3), Opt("SplitPercent", 100)>>}}

ApplySizing == ApplyOptions(SizingMenu)

NextSizing == ApplySizing
SpecSizing == Init /\ [][NextSizing]_vars

\* The three fields the split sizing options write.
SizingFields(o) ==
    [splitPercent |-> o.splitPercent, splitFixed |-> o.splitFixed,
     splitReversed |-> o.splitReversed]

\* C16: SplitPercent(p) and SplitPercentFromEnd(p) succeed exactly when
\* 0 < p < 100, SplitFixed(c) and SplitFixedFromEnd(c) exactly when c >= 0;
\* a split sizing option that is rejected leaves splitPercent, splitFixed
\* and splitReversed as they were.
C16_SplitSizingRanges ==
    [][ ( /\ last'.op = "applyOptions"
          /\ Len(last'.opts) = 1
          /\ IsSplit(last'.opts[1])
          /\ last'.opts[1].l = <<>> /\ last'.opts[1].r = <<>>
          /\ Len(last'.opts[1].opts) >= 1 )
        => LET so == last'.opts[1].opts
               accepted(o) ==
                   IF o.op \in {"SplitPercent", "SplitPercentFromEnd"}
                   THEN 0 < o.arg /\ o.arg < 100
                   ELSE o.arg >= 0
               old == SizingFields(At(root, last'.target).opts)
               new == SizingFields(At(root', last'.target).opts)
           IN  /\ (last'.err = nil) <=> (\A i \in DOMAIN so : accepted(so[i]))
               /\ ~accepted(so[1]) => new = old
               /\ (Len(so) = 2 /\ accepted(so[1]) /\ ~accepted(so[2])) =>
                      new = SizingFields(setSplit(so[1], At(root, last'.target).opts).opts)
      ]_vars

\* SplitPercent(100) was rejected on a root whose earlier splits had set
\* 99 percent, 3 cells and the reversed flag, and all three are still there.
C16_Witness ==
    /\ last.op = "applyOptions"
    /\ last.opts = <<Split("SplitVertical", <<>>, <<>>, <<Opt("SplitPercent", 100)>>)>>
    /\ last.err = <<ErrRange, "SplitPercent">>
    /\ SizingFields(root.opts) =
           [splitPercent |-> 99, splitFixed |-> 3, splitReversed |-> TRUE]

-----------------------------------------------------------------------------
(* Focused() applied to several containers.                                *)

FocusChildLists ==
    {<<>>, <<Opt0("Focused")>>, <<Opt("PlaceWidget", "w1"), Opt0("Focused")>>}

\* Focused() alone, in the child lists of a split, before and after a split
\* in one list, and in a child list that then fails.
FocusMenu ==
    {<<Opt0("Focused")>>, <<Opt0("Clear")>>}
    \cup {<<Split("SplitVertical", l, r, <<>>)>> :
              l \in FocusChildLists, r \in FocusChildLists}
    \cup {<<Opt0("Focused"), Split("SplitVertical", l, r, <<>>)>> :
              l \in {<<>>, <<Opt0("Focused")>>},
              r \in {<<>>, <<Opt("PlaceWidget", "w1"), Opt0("Focused")>>}}
    \cup {<<Split("SplitHorizontal", <<Opt0("Focused")>>, <<Opt0("Focused")>>, <<>>),
            Opt0("Focused")>>,
          <<Split("SplitHorizontal", <<Opt0("Focused"), Opt("ID", "")>>,
                  <<Opt0("Focused")>>, <<>>)>>,
          <<Split("SplitHorizontal", <<Opt0("Focused")>>,
                  <<Opt0("Focused"), Opt("ID", "")>>, <<>>)>>}

ApplyFocus == ApplyOptions(FocusMenu)

NextFocus == ApplyFocus
SpecFocus == Init /\ [][NextFocus]_vars

\* Who a child list makes the focus holder, if anyone: the child named
\* tag, which is not linked into the tree when its list fails.
ChildTrail(list, tag) ==
    IF FocusedWithin(list, FirstFailing(list) - 1)
    THEN <<IF FirstFailing(list) <= Len(list) THEN "unlinked" ELSE tag>>
    ELSE <<>>

\* The holders one option names, in application order: the first child's
\* list before the second child's list, which runs only if the first passed.
OptTrail(o) ==
    IF o = Opt0("Focused") THEN <<"self">>
    ELSE IF IsSplit(o)
         THEN ChildTrail(o.l, "first")
              \o (IF FirstFailing(o.l) > Len(o.l) THEN ChildTrail(o.r, "second") ELSE <<>>)
         ELSE <<>>

OptFails(o) ==
    IF IsSplit(o)
    THEN FirstFailing(o.l) <= Len(o.l) \/ FirstFailing(o.r) <= Len(o.r)
    ELSE FailsWith(o) # nil

\* The holders an option list names, in application order.
RECURSIVE Trail(_)
Trail(opts) ==
    IF opts = <<>> THEN <<>>
    ELSE OptTrail(Head(opts)) \o (IF OptFails(Head(opts)) THEN <<>> ELSE Trail(Tail(opts)))

\* No option after a split of the list removes the children it created.
KeepsChildren(opts) ==
    \A i \in DOMAIN opts : IsSplit(opts[i]) =>
        \A j \in (i + 1)..Len(opts) :
            ~IsSplit(opts[j]) /\ opts[j].op \notin {"Clear", "PlaceWidget"}

\* C17: when Focused() is applied to several containers by one call, in the
\* list of the container and in the child lists of its splits, the focus is
\* afterwards on the container whose Focused() ran last in application
\* order (list order, the first child's list before the second child's),
\* whatever held the focus before.
C17_LastFocusedWins ==
    [][ ( /\ last'.op = "applyOptions"
          /\ KeepsChildren(last'.opts)
          /\ \A i \in DOMAIN last'.opts :
                 IsSplit(last'.opts[i]) => last'.opts[i].opts = <<>>
          /\ Trail(last'.opts) # <<>> )
        => LET trail == Trail(last'.opts)
               holder == trail[Len(trail)]
               new == At(root', last'.target)
           IN  focusTracker'.container =
                   CASE holder = "self" -> new.cid
                     [] holder = "first" -> new.first[1].cid
                     [] holder = "second" -> new.second[1].cid
                     [] holder = "unlinked" -> Detached
      ]_vars

\* Focused() on the root, then a split whose two child lists both have
\* Focused(): the second child holds the focus.
C17_Witness ==
    /\ last.op = "applyOptions"
    /\ last.target = <<>>
    /\ last.opts = <<Opt0("Focused"),
                     Split("SplitVertical", <<Opt0("Focused")>>,
                           <<Opt("PlaceWidget", "w1"), Opt0("Focused")>>, <<>>)>>
    /\ last.err = nil
    /\ root.second # nil
    /\ focusTracker.container = root.second[1].cid

-----------------------------------------------------------------------------
(* The ranges of the sixteen margin and padding options.                   *)

\* Cell counts at and next to the lower end of the range, percentages at
\* and next to both ends.
RangeMenu ==
    {<<Opt(s.cellOpt, v)>> : s \in SpacingSides, v \in {-1, 0, 2}}
    \cup {<<Opt(s.percOpt, v)>> : s \in SpacingSides, v \in {-1, 0, 100, 101}}

ApplyRange == ApplyOptions(RangeMenu)

NextRange == ApplyRange
SpecRange == Init /\ [][NextRange]_vars

\* C18: a margin or padding percent option succeeds only if
\* 0 <= perc <= 100, a margin or padding cell option only if cells >= 0; an
\* option given a value outside its range returns an error and leaves the
\* margin and the padding as they were; both 0 and 100 are accepted as a
\* percentage when the side has no cell value.
C18_SpacingRanges ==
    [][ ( /\ last'.op = "applyOptions"
          /\ Len(last'.opts) = 1 )
        => LET old == At(root, last'.target).opts
               new == At(root', last'.target).opts
               o == last'.opts[1]
           IN  \A s \in SpacingSides :
                 /\ (o.op = s.cellOpt /\ last'.err = nil) => o.arg >= 0
                 /\ (o.op = s.percOpt /\ last'.err = nil) => (0 <= o.arg /\ o.arg <= 100)
                 /\ ( \/ (o.op = s.cellOpt /\ o.arg < 0)
                      \/ (o.op = s.percOpt /\ (o.arg < 0 \/ o.arg > 100)) )
                    => /\ last'.err # nil
                       /\ last'.err[1] = ErrRange
                       /\ new.margin = old.margin
                       /\ new.padding = old.padding
                 /\ ( /\ o.op = s.percOpt
                      /\ o.arg \in {0, 100}
                      /\ Spacing(old, s.rec)[s.cells] = 0 )
                    => /\ last'.err = nil
                       /\ Spacing(new, s.rec)[s.perc] = o.arg
      ]_vars

\* PaddingBottomPercent(101) was rejected for its range on a container
\* whose top margin is 100 percent and whose left padding is 2 cells, and
\* both are still there.
C18_Witness ==
    /\ last.op = "applyOptions"
    /\ last.opts = <<Opt("PaddingBottomPercent", 101)>>
    /\ last.err = <<ErrRange, "PaddingBottomPercent">>
    /\ root.opts.margin.topPerc = 100
    /\ root.opts.padding.leftCells = 2
    /\ root.opts.padding.bottomPerc = 0

-----------------------------------------------------------------------------
(* Split sizing that stays on a container.                                 *)

\* The percentage the last accepted percent option of a sizing list sets,
\* 0 when the list has none.
LastPercent(so) ==
    LET at == {i \in DOMAIN so : AcceptedPercent(so[i])}
    IN  IF at = {} THEN 0 ELSE so[Max(at)].arg

\* C19: once SplitFixed or SplitFixedFromEnd has succeeded on a container,
\* no later option on it (Clear, PlaceWidget, a new split with a percentage)
\* returns splitFixed to its default of -1; a new split of that container
\* with a percentage other than 50 leaves a tree validateOptions rejects.
C19_SplitFixedStays ==
    [][ ( /\ last'.op = "applyOptions"
          /\ At(root, last'.target).opts.splitFixed # DefaultSplitFixed )
        => LET o == last'.opts[1]
               new == At(root', last'.target).opts
           IN  /\ new.splitFixed # DefaultSplitFixed
               /\ ( /\ IsSplit(o)
                    /\ last'.err = nil
                    /\ LastPercent(o.opts) \notin {0, DefaultSplitPercent} )
                  => /\ new.splitPercent = LastPercent(o.opts)
                     /\ validateOptions(root') # nil
      ]_vars

\* The root, which holds a fixed split size of 3 from an earlier split, was
\* split again with SplitPercent(30) alone, and validateOptions rejects it.
C19_Witness ==
    /\ last.op = "applyOptions"
    /\ last.target = <<>>
    /\ last.opts = <<Split("SplitVertical", <<>>, <<>>, <<Opt("SplitPercent", 30)>>)>>
    /\ last.err = nil
    /\ root.opts.splitFixed = 3
    /\ root.opts.splitPercent = 30
    /\ validateOptions(root) = <<ErrSplits, "3", "30">>

\* C20: splitReversed is monotone on a container: once SplitPercentFromEnd
\* or SplitFixedFromEnd has set it, it stays true under every later option
\* on that container, Clear, PlaceWidget and a new split with SplitPercent
\* or SplitFixed included.
C20_SplitReversedStays ==
    [][ ( /\ last'.op = "applyOptions"
          /\ At(root, last'.target).opts.splitReversed )
        => At(root', last'.target).opts.splitReversed
      ]_vars

\* The root, reversed by an earlier from-end split, was split again with
\* SplitFixed(3) after a SplitPercent, and is still reversed.
C20_Witness ==
    /\ last.op = "applyOptions"
    /\ last.target = <<>>
    /\ last.opts = <<Split("SplitVertical", <<>>, <<>>,
                           <<Opt("SplitPercent", 30), Opt("SplitFixed", 3)>>)>>
    /\ last.err = nil
    /\ root.opts.splitReversed
    /\ root.first # nil

-----------------------------------------------------------------------------
(* The focus groups a container declares.                                  *)

\* KeyFocusGroups with no group, with one and two valid groups, a repeated
\* group, and a rejected group alone and after a valid one; options that
\* write other fields of the container and of the global options, the
\* border and the alignment options among them.
GroupsMenu ==
    {<<GroupsOpt(gs)>> :
         gs \in {<<>>, <<0>>, <<1>>, <<2>>, <<2, 1>>, <<1, 1>>, <<-1>>, <<1, -1>>}}
    \cup {<<Opt0("Clear")>>, <<Opt("PlaceWidget", "w1")>>, <<Opt0("KeyFocusSkip")>>,
          <<KeyOpt("KeyFocusGroupsNext", "k1", <<1>>)>>}
    \cup {<<Opt("Border", "Light")>>,
          <<Opt("AlignHorizontal", "HorizontalRight")>>,
          <<Opt("AlignVertical", "VerticalTop")>>,
          <<Opt0("BorderTitleAlignLeft")>>, <<Opt0("BorderTitleAlignCenter")>>,
          <<Opt0("BorderTitleAlignRight")>>}

ApplyGroups == ApplyOptions(GroupsMenu)

NextGroups == ApplyGroups
SpecGroups == Init /\ [][NextGroups]_vars

\* C21: KeyFocusGroups with one or more valid groups appends them, in
\* argument order, after the groups the container already declares:
\* duplicates are kept and, for every set of groups a key can be mapped to,
\* a group that firstMatching resolved before is still the one it resolves;
\* the group list of a container becomes empty only by KeyFocusGroups with
\* zero groups.
C21_GroupsAppendInOrder ==
    [][ ( /\ last'.op = "applyOptions"
          /\ Len(last'.opts) = 1 )
        => LET o == last'.opts[1]
               old == At(root, last'.target).opts.keyFocusGroups
               new == At(root', last'.target).opts.keyFocusGroups
           IN  /\ ( /\ o.op = "KeyFocusGroups"
                    /\ Len(o.groups) >= 1
                    /\ \A i \in DOMAIN o.groups : o.groups[i] >= 0 )
                  => /\ last'.err = nil
                     /\ new = old \o o.groups
                     /\ \A fg \in SUBSET MatchGroups :
                            firstMatching(fg, old)[1] =>
                                firstMatching(fg, new) = firstMatching(fg, old)
               /\ (old # <<>> /\ new = <<>>)
                  => (o.op = "KeyFocusGroups" /\ o.groups = <<>>)
      ]_vars

\* KeyFocusGroups(1) on a container that already declared the group 1: the
\* list holds it twice.
C21_Witness ==
    /\ last.op = "applyOptions"
    /\ last.opts = <<GroupsOpt(<<1>>)>>
    /\ last.err = nil
    /\ root.opts.keyFocusGroups = <<1, 1>>

====
